---- MODULE Spec2Model ----
(***************************************************************************)
(* A model of the state-reconciliation core of tokio-console: the string   *)
(* interner (intern.rs), the async-op store update path and the derived    *)
(* durations (state/async_ops.rs), and the warning counts (warnings.rs).   *)
(*                                                                         *)
(* An Rc<String> allocation is an index into `heap`; a handle is such an   *)
(* index.  Rc::strong_count of an allocation is the number of handles to   *)
(* it that are alive: the interner's own entry, the handles a client of    *)
(* the interner holds, and the handles stored in the fields of entities.   *)
(***************************************************************************)
EXTENDS Integers, Sequences, FiniteSets, TLC

\* Option<T>: None is the empty tuple, Some(v) the one-element tuple.
None == <<>>
Some(v) == <<v>>
IsSome(o) == o # <<>>
Unwrap(o) == o[1]

SeqToSet(s) == {s[i] : i \in 1..Len(s)}

----------------------------------------------------------------------------
\* Bounds of the model.
MaxAllocs == 4      \* Rc<String> allocations a client of the interner causes
MaxHeld == 2        \* handles a client of the interner holds at once
MaxBatches == 2     \* update batches applied in one behaviour
MaxBatchLen == 2    \* new-entity records in one update batch
MaxTime == 3        \* the latest instant a retention sweep is run at
MaxTasks == 2       \* tasks that appear in the task store in one behaviour
MaxViewControls == 2 \* controls a view has of its own
MaxAreaWidth == 44  \* the widest area the controls are laid out in

\* String contents a client of the interner asks for.
Contents == {"n/a", "a"}

VARIABLES
    strings,        \* Strings.strings: the set of registered allocations
    heap,           \* heap[a]: the content of allocation a (never changes)
    held,           \* held[a]: handles to a held by the interner's client
    ids,            \* the Ids remappers: async_op (in the store), resource, task
    store,          \* Store.store: local id -> entity
    new_items,      \* Store.new_items: weak references, in insertion order
    next_obj,       \* the next Rc<RefCell<AsyncOp>> allocation
    dropped_events, \* AsyncOpsState.dropped_events
    panicked,       \* the thread has panicked
    nbatches,       \* update batches applied so far
    pc,             \* the update loop: idle, or applying an update batch
    since_sweep,    \* history: content -> handle returned since the last sweep
    returned,       \* history: every <<kind, remote id, local id>> id_for returned
    first_seen,     \* history: per kind, the remote ids in first-seen order
    since_drain,    \* history: entities inserted (tracked) since the last drain
    delivered,      \* history: how often take_new_items returned each entity
    evicted,        \* history: the local ids a retention sweep has removed
    linters,        \* per rule: Rc::strong_count of the Linter's Rc<dyn Warn>
    warnings,       \* per live Task: the rules it holds a Linter of
    task_data,      \* per live Task: the data the rules read off it
    task_store,     \* the tasks the task store holds an Rc of
    task_view,      \* TaskView.task of the open detail view, if one is open
    next_task,      \* the next task to appear in the task store
    verdict,        \* history: per live Task and rule, the latest Ok or Warn
    wall_clock,     \* what SystemTime::now() returns
    polled_task,    \* the Task the never-yielded rule is evaluated against
    last            \* history: the latest operation, its inputs and results

internVars == <<strings, heap, held, since_sweep>>
storeVars == <<ids, store, new_items, next_obj, dropped_events, panicked,
               nbatches, returned, first_seen, since_drain, delivered,
               evicted>>
taskVars == <<linters, warnings, task_data, task_store, task_view, next_task,
              verdict>>
ruleVars == <<wall_clock, polled_task>>
lintVars == <<taskVars, ruleVars>>
vars == <<internVars, storeVars, lintVars, pc, last>>

Kinds == {"async_op", "resource", "task"}

EmptyMap == <<>>
MapRemove(f, k) == [x \in DOMAIN f \ {k} |-> f[x]]

----------------------------------------------------------------------------
\* Durations and instants are whole numbers of time units.

\* A duration_since that measures the distance between the two instants.
DurationSinceDistance(t, earlier) ==
    Some(IF t >= earlier THEN t - earlier ELSE earlier - t)

\* SystemTime::duration_since: Err when `earlier` is later than `t`.
DurationSince(t, earlier) == IF t >= earlier THEN Some(t - earlier) ELSE None

\* Duration::checked_sub
CheckedSub(a, b) == IF a >= b THEN Some(a - b) ELSE None

\* Option<Duration>::unwrap_or_default
UnwrapOrDefault(o) == IF IsSome(o) THEN Unwrap(o) ELSE 0

\* Display of an integer: its decimal digits.
Digits == <<"0", "1", "2", "3", "4", "5", "6", "7", "8", "9">>
RECURSIVE DisplayU64(_)
DisplayU64(n) ==
    IF n < 10 THEN Digits[n + 1]
    ELSE DisplayU64(n \div 10) \o Digits[(n % 10) + 1]

----------------------------------------------------------------------------
\* intern.rs

\* HashSet::get by content (InternedStr hashes and compares by content).
StringsGet(I, s) == {a \in I.strings : I.heap[a] = s}

\* Strings::insert: a new allocation, registered unless the set already
\* holds an equal element (HashSet::insert keeps the old one).
Insert(I, s) ==
    LET a == Len(I.heap) + 1
    IN  [I EXCEPT !.heap = Append(I.heap, s),
                  !.strings = IF StringsGet(I, s) = {} THEN I.strings \cup {a}
                              ELSE I.strings,
                  !.out = a]

\* A string() that never looks the content up.
StringNoLookup(I, s) == Insert(I, s)

\* A string() that finds the content among all allocations ever made, the
\* swept ones included.
StringStale(I, s) ==
    IF \E a \in 1..Len(I.heap) : I.heap[a] = s
    THEN [I EXCEPT !.out = CHOOSE a \in 1..Len(I.heap) : I.heap[a] = s]
    ELSE Insert(I, s)

\* Strings::string
String(I, s) ==
    IF StringsGet(I, s) # {}
    THEN [I EXCEPT !.out = CHOOSE a \in StringsGet(I, s) : TRUE]
    ELSE Insert(I, s)

\* Strings::string_ref: the same lookup, the content is copied on a miss.
StringRef(I, s) ==
    IF StringsGet(I, s) # {}
    THEN [I EXCEPT !.out = CHOOSE a \in StringsGet(I, s) : TRUE]
    ELSE Insert(I, s)

\* The InternedStr fields of one AsyncOp (struct AsyncOp, struct AsyncOpStats).
EntityHandles(e) == <<e.parent_id, e.source, e.stats.task_id_str>>

\* Handles to allocation a held in the fields of the entities of store st.
RECURSIVE EntityRefs(_, _, _)
EntityRefs(st, todo, a) ==
    IF todo = {} THEN 0
    ELSE LET id == CHOOSE i \in todo : TRUE
             hs == EntityHandles(st[id])
         IN  Cardinality({i \in 1..Len(hs) : hs[i] = a})
             + EntityRefs(st, todo \ {id}, a)

\* Handles to allocation a that live outside the interner.
ExternalHolders(a) ==
    (IF a \in DOMAIN held THEN held[a] ELSE 0)
    + EntityRefs(store, DOMAIN store, a)

\* Rc::strong_count
StrongCount(a) == (IF a \in strings THEN 1 ELSE 0) + ExternalHolders(a)

\* A retain predicate that counts the interner's own handle as a reference.
ReferencedOffByOne(a) == StrongCount(a) > 0

\* The retain predicate of Strings::retain_referenced.
Referenced(a) == StrongCount(a) > 1

TotalHeld == LET RECURSIVE Sum(_)
                 Sum(n) == IF n = 0 THEN 0 ELSE held[n] + Sum(n - 1)
             IN  Sum(Len(held))

Interner == [strings |-> strings, heap |-> heap, out |-> 0]

NoSinceSweep == [s \in Contents |-> None]

\* A client calls Strings::string or Strings::string_ref and keeps the handle.
ClientIntern(s, R) ==
    /\ ~panicked
    /\ TotalHeld < MaxHeld
    /\ StringsGet(Interner, s) # {} \/ Len(heap) < MaxAllocs
    /\ strings' = R.strings
    /\ heap' = R.heap
    /\ held' = [a \in 1..Len(R.heap) |->
                  (IF a \in DOMAIN held THEN held[a] ELSE 0)
                  + (IF a = R.out THEN 1 ELSE 0)]
    /\ since_sweep' = [since_sweep EXCEPT ![s] = Some(R.out)]
    /\ last' = [op |-> "intern", content |-> s, handle |-> R.out,
                prev |-> since_sweep[s],
                added |-> R.strings # strings,
                stale |-> {a \in 1..Len(heap) :
                              heap[a] = s /\ a \notin strings}]
    /\ UNCHANGED <<storeVars, lintVars, pc>>

ClientString == \E s \in Contents : ClientIntern(s, String(Interner, s))

ClientStringRef == \E s \in Contents : ClientIntern(s, StringRef(Interner, s))

\* The client drops one handle.
ClientDrop ==
    /\ ~panicked
    /\ \E a \in DOMAIN held :
        /\ held[a] > 0
        /\ held' = [held EXCEPT ![a] = held[a] - 1]
        /\ last' = [op |-> "drop", handle |-> a]
        /\ UNCHANGED <<strings, heap, since_sweep, storeVars, lintVars, pc>>

\* Strings::retain_referenced.  The shrink_to_fit that may follow changes
\* the capacity of the set only, never its elements.
RetainReferenced ==
    /\ ~panicked
    /\ pc = "idle"
    /\ strings' = {a \in strings : Referenced(a)}
    /\ since_sweep' = NoSinceSweep
    /\ last' = [op |-> "sweep", before |-> strings,
                external |-> {a \in 1..Len(heap) : ExternalHolders(a) > 0},
                swept_store |-> IF last.op = "retain" THEN Some(last.before)
                                ELSE None]
    /\ UNCHANGED <<heap, held, storeVars, lintVars, pc>>

----------------------------------------------------------------------------
\* state/store.rs (Ids, Store)

FirstId == 1

\* Ids::default
NewIds == [next |-> FirstId, map |-> EmptyMap]

\* An id_for that allocates on every call.
IdsIdForAlwaysNew(I, r) ==
    [ids |-> [next |-> I.next + 1, map |-> (r :> I.next) @@ I.map],
     id |-> I.next]

\* An id_for that does not advance the counter.
IdsIdForNoAdvance(I, r) ==
    IF r \in DOMAIN I.map
    THEN [ids |-> I, id |-> I.map[r]]
    ELSE [ids |-> [next |-> I.next, map |-> (r :> I.next) @@ I.map],
          id |-> I.next]

\* Ids::id_for: the local id of a remote id, the next one on first sight.
IdsIdFor(I, r) ==
    IF r \in DOMAIN I.map
    THEN [ids |-> I, id |-> I.map[r]]
    ELSE [ids |-> [next |-> I.next + 1, map |-> (r :> I.next) @@ I.map],
          id |-> I.next]

\* One id_for call of the batch in progress, on the remapper of `kind`;
\* the call and its result are added to the history.
IdFor(S, kind, r) ==
    LET R == IdsIdFor(S.ids[kind], r)
    IN  [S EXCEPT !.ids[kind] = R.ids,
                  !.id = R.id,
                  !.returned = @ \cup {<<kind, r, R.id>>},
                  !.first_seen[kind] =
                      IF r \in SeqToSet(@) THEN @ ELSE Append(@, r)]

----------------------------------------------------------------------------
\* state/async_ops.rs

\* AsyncOpStats::from_proto, its last statement: the struct, from the
\* batch state S2 left by the interning of task_id_str.
FromProtoStats(S2, pb) ==
    LET created_at == Unwrap(pb.created_at)
        dropped_at == pb.dropped_at
        total == IF IsSome(dropped_at)
                 THEN Some(UnwrapOrDefault(
                          DurationSince(Unwrap(dropped_at), created_at)))
                 ELSE None
        poll_stats == Unwrap(pb.poll_stats)
        busy == UnwrapOrDefault(poll_stats.busy_time)
        idle == IF IsSome(total)
                THEN Some(UnwrapOrDefault(CheckedSub(Unwrap(total), busy)))
                ELSE None
        task_id == IF IsSome(pb.task_id) THEN Some(S2.id) ELSE None
    IN  [S2 EXCEPT !.stats =
            [total |-> total,
             idle |-> idle,
             task_id |-> task_id,
             task_id_str |-> S2.out,
             busy |-> busy,
             last_poll_started |-> poll_stats.last_poll_started,
             last_poll_ended |-> poll_stats.last_poll_ended,
             polls |-> poll_stats.polls,
             created_at |-> created_at,
             dropped_at |-> dropped_at,
             formatted_attributes |-> <<>>]]

\* AsyncOpStats::from_proto, task_id_str: the local task id S1.id as a
\* decimal string, "n/a" without a task id; interned.
FromProtoTaskIdStr(S1, pb) ==
    String(S1, IF IsSome(pb.task_id) THEN DisplayU64(S1.id) ELSE "n/a")

\* AsyncOpStats::from_proto, task_id: pb.task_id.map(|id| task_ids.id_for(id))
FromProtoTaskId(S, pb) ==
    IF IsSome(pb.task_id) THEN IdFor(S, "task", Unwrap(pb.task_id)) ELSE S

\* AsyncOpStats::from_proto.  The stats records of the model carry no
\* attributes.  Sets S.stats, or S.panicked when an expect() fails.
FromProto(S, pb) ==
    IF pb.created_at = None THEN [S EXCEPT !.panicked = TRUE]
    ELSE IF pb.poll_stats = None THEN [S EXCEPT !.panicked = TRUE]
    ELSE FromProtoStats(FromProtoTaskIdStr(FromProtoTaskId(S, pb), pb), pb)

\* A lookup that never finds the metadata.
MetasGetMiss(metas, meta_id) == FALSE

\* A lookup that is never checked for a miss.
MetasGetUnchecked(metas, meta_id) == TRUE

\* metas.get(&meta_id): is there metadata for the id?
MetasGet(metas, meta_id) == meta_id \in metas

\* A stats lookup that leaves the stats in the map (get, not remove).
TakeStatsKeep(S, span_id) == S

\* stats_update.remove(&span_id): the stats leave the map for good.
TakeStats(S, span_id) == [S EXCEPT !.stats_update = MapRemove(@, span_id)]

\* The closure of update_async_ops, its last statement: the AsyncOp, from the
\* batch state S6 left by the interning of the source.
NewAsyncOpStruct(S6, async_op, id, resource_id, parent_id) ==
    [S6 EXCEPT !.built =
        Some([id |-> id,
              op |-> [id |-> id,
                      parent_id |-> parent_id,
                      resource_id |-> resource_id,
                      meta_id |-> Unwrap(async_op.metadata),
                      source |-> S6.out,
                      stats |-> S6.stats]])]

\* The closure of update_async_ops, source: strings.string(async_op.source),
\* after parent_id was interned in S5.
NewAsyncOpSource(S5, async_op, id, resource_id) ==
    NewAsyncOpStruct(String(S5, async_op.source), async_op, id, resource_id,
                     S5.out)

\* The closure of update_async_ops, parent_id: the local id S4.id of the
\* parent as a decimal string, "n/a" without a parent; interned.
NewAsyncOpParentId(S4, async_op, id, resource_id) ==
    NewAsyncOpSource(
        String(S4, IF IsSome(async_op.parent_async_op_id)
                   THEN DisplayU64(S4.id) ELSE "n/a"),
        async_op, id, resource_id)

\* The closure of update_async_ops, the parent: ids.id_for(parent id), after
\* resource_ids.id_for returned S3.id.
NewAsyncOpParent(S3, async_op, id) ==
    NewAsyncOpParentId(
        IF IsSome(async_op.parent_async_op_id)
        THEN IdFor(S3, "async_op", Unwrap(async_op.parent_async_op_id))
        ELSE S3,
        async_op, id, S3.id)

\* The closure of update_async_ops, resource_id: `async_op.resource_id?.id`
\* through resource_ids.id_for, after ids.id_for returned S2.id.
NewAsyncOpResource(S2, async_op) ==
    IF async_op.resource_id = None THEN [S2 EXCEPT !.built = None]
    ELSE NewAsyncOpParent(
             IdFor(S2, "resource", Unwrap(async_op.resource_id)),
             async_op, S2.id)

\* The closure of update_async_ops, id: ids.id_for(span_id), after from_proto
\* left S1.
NewAsyncOpId(S1, async_op) ==
    IF S1.panicked THEN S1
    ELSE NewAsyncOpResource(IdFor(S1, "async_op", Unwrap(async_op.id)),
                            async_op)

\* The closure update_async_ops hands to Store::insert_with.  Sets S.built to
\* Some([id, op]) or to None (record skipped), or S.panicked.
NewAsyncOp(S, async_op, metas) ==
    IF async_op.id = None THEN [S EXCEPT !.built = None]
    ELSE IF async_op.metadata = None THEN [S EXCEPT !.built = None]
    ELSE IF ~MetasGet(metas, Unwrap(async_op.metadata))
    THEN [S EXCEPT !.built = None]
    ELSE IF Unwrap(async_op.id) \notin DOMAIN S.stats_update
    THEN [S EXCEPT !.built = None]
    ELSE NewAsyncOpId(
             FromProto(TakeStats(S, Unwrap(async_op.id)),
                       S.stats_update[Unwrap(async_op.id)]),
             async_op)

\* Store::insert_with, one item: what the closure built in S1 goes into the
\* store under its local id, as a new shared object, and is appended to
\* new_items when the visibility is Show.
InsertBuilt(S1, visibility) ==
    IF S1.panicked THEN S1
    ELSE IF S1.built = None THEN [S1 EXCEPT !.log = Append(@, None)]
    ELSE [S1 EXCEPT
             !.store = (Unwrap(S1.built).id :>
                            ([obj |-> S1.next_obj] @@ Unwrap(S1.built).op))
                       @@ @,
             !.next_obj = @ + 1,
             !.log = Append(@, Some([id |-> Unwrap(S1.built).id,
                                     obj |-> S1.next_obj])),
             !.new_items = IF visibility = "Show"
                           THEN Append(@, S1.next_obj) ELSE @,
             !.since_drain = IF visibility = "Show"
                             THEN @ \cup {S1.next_obj} ELSE @]

\* Store::insert_with, with the closure of update_async_ops, over the items
\* in order.
RECURSIVE InsertWith(_, _, _, _)
InsertWith(S, visibility, items, metas) ==
    IF items = <<>> \/ S.panicked THEN S
    ELSE InsertWith(InsertBuilt(NewAsyncOp(S, Head(items), metas),
                                visibility),
                    visibility, Tail(items), metas)

\* Store::updated, for one key of the delta map: the local id of the stored
\* entity with that remote id, if there is one.
Updated(S, key) ==
    LET map == S.ids["async_op"].map
    IN  IF key \in DOMAIN map /\ map[key] \in DOMAIN S.store
        THEN Some(map[key]) ELSE None

\* The assignment in the loop of update_async_ops: async_op.stats takes the
\* value from_proto left in F.
ApplyStatFromProto(F, key, id) ==
    IF F.panicked THEN F
    ELSE [F EXCEPT !.store[id].stats = F.stats, !.applied = @ \cup {key}]

\* The body of the loop of update_async_ops: the stats of the entity `found`
\* are replaced when its metadata is known.
ApplyStat(S, key, found, metas) ==
    IF found = None THEN S
    ELSE IF ~MetasGet(metas, S.store[Unwrap(found)].meta_id) THEN S
    ELSE ApplyStatFromProto(FromProto(S, S.stats_update[key]), key,
                            Unwrap(found))

\* The loop of update_async_ops over Store::updated(stats_update), the keys
\* of the map taken in the order `order`.
RECURSIVE ApplyStats(_, _, _)
ApplyStats(S, order, metas) ==
    IF order = <<>> \/ S.panicked THEN S
    ELSE ApplyStats(ApplyStat(S, Head(order), Updated(S, Head(order)), metas),
                    Tail(order), metas)

\* The orders a HashMap may iterate the keys K in.
Orders(K) ==
    {o \in [1..Cardinality(K) -> K] :
        \A i, j \in 1..Cardinality(K) : i # j => o[i] # o[j]}

----------------------------------------------------------------------------
\* The update batches of the model.

RemoteIds == {1, 2}
Visibilities == {"Show", "Hide"}

\* proto::async_ops::AsyncOp records.
NewRecords ==
    {[id |-> Some(1), metadata |-> Some(1), resource_id |-> Some(1),
      parent_async_op_id |-> None, source |-> "a"],
     [id |-> Some(2), metadata |-> Some(2), resource_id |-> Some(1),
      parent_async_op_id |-> Some(1), source |-> "a"],
     [id |-> None, metadata |-> Some(1), resource_id |-> Some(1),
      parent_async_op_id |-> None, source |-> "a"],
     [id |-> Some(1), metadata |-> None, resource_id |-> Some(1),
      parent_async_op_id |-> None, source |-> "a"],
     [id |-> Some(1), metadata |-> Some(1), resource_id |-> None,
      parent_async_op_id |-> Some(2), source |-> "a"]}

NewSeqs == UNION {[1..n -> NewRecords] : n \in 0..MaxBatchLen}

PollStats == [busy_time |-> Some(1), last_poll_started |-> Some(0),
              last_poll_ended |-> Some(1), polls |-> 1]

\* proto::async_ops::Stats records: still active, completed, one the
\* instrumented program never sent a creation time for, and one it never
\* sent poll stats for.
PbStats ==
    {[created_at |-> Some(0), dropped_at |-> None,
      poll_stats |-> Some(PollStats), task_id |-> None],
     [created_at |-> Some(0), dropped_at |-> Some(2),
      poll_stats |-> Some(PollStats), task_id |-> Some(1)],
     [created_at |-> None, dropped_at |-> None,
      poll_stats |-> Some(PollStats), task_id |-> None],
     [created_at |-> Some(0), dropped_at |-> None,
      poll_stats |-> None, task_id |-> None]}

\* stats_update maps: one stats record, reported for a set of remote ids.
StatsUpdates ==
    {EmptyMap} \cup
    {[k \in K |-> st] : K \in (SUBSET RemoteIds) \ {{}}, st \in PbStats}

\* What comes with a batch: the metadata table, the visibility, the count of
\* events the transport dropped.
Contexts ==
    {[metas |-> {1, 2}, visibility |-> "Show", dropped_events |-> 0],
     [metas |-> {1}, visibility |-> "Show", dropped_events |-> 0],
     [metas |-> {1, 2}, visibility |-> "Hide", dropped_events |-> 0],
     [metas |-> {1, 2}, visibility |-> "Show", dropped_events |-> 1]}

\* The update batches the transport hands over.
Updates ==
    {[new |-> new, stats_update |-> su, metas |-> c.metas,
      visibility |-> c.visibility, dropped_events |-> c.dropped_events] :
        new \in NewSeqs, su \in StatsUpdates, c \in Contexts}

\* The update loop leaves its suspension point: the stream has delivered
\* the next update batch.
NextUpdate ==
    /\ ~panicked
    /\ pc = "idle"
    /\ nbatches < MaxBatches
    /\ pc' = "update"
    /\ last' = [op |-> "receive"]
    /\ UNCHANGED <<internVars, storeVars, lintVars>>

BatchState(su) ==
    [ids |-> ids, strings |-> strings, heap |-> heap, store |-> store,
     new_items |-> new_items, next_obj |-> next_obj, stats_update |-> su,
     returned |-> returned, first_seen |-> first_seen,
     since_drain |-> since_drain, log |-> <<>>, applied |-> {},
     panicked |-> FALSE, out |-> 0, id |-> 0, built |-> None, stats |-> None]

\* A counter that holds the count of the latest batch only.
DroppedEventsLatest(count, update) == update.dropped_events

\* update_async_ops: `self.dropped_events += update.dropped_events`.
DroppedEventsAdd(count, update) == count + update.dropped_events

\* update_async_ops, its effect on the state: S2 is the batch state after
\* both loops, deltas the keys the second loop went over.
UpdateCommit(u, deltas, S2) ==
    IF S2.panicked
    THEN /\ panicked' = TRUE
         /\ last' = [op |-> "panic", update |-> u]
         /\ UNCHANGED <<internVars, lintVars, ids, store, new_items,
                        next_obj,
                        dropped_events, nbatches, returned, first_seen,
                        since_drain, delivered, evicted>>
    ELSE /\ ids' = S2.ids
         /\ strings' = S2.strings
         /\ heap' = S2.heap
         /\ store' = S2.store
         /\ new_items' = S2.new_items
         /\ next_obj' = S2.next_obj
         /\ dropped_events' = DroppedEventsAdd(dropped_events, u)
         /\ nbatches' = nbatches + 1
         /\ returned' = S2.returned
         /\ first_seen' = S2.first_seen
         /\ since_drain' = S2.since_drain
         /\ last' = [op |-> "update", update |-> u,
                     log |-> S2.log,
                     deltas |-> deltas,
                     applied |-> S2.applied,
                     before |-> [store |-> store, ids |-> ids,
                                 new_items |-> new_items]]
         /\ UNCHANGED <<held, since_sweep, delivered, evicted, panicked,
                        lintVars>>

\* update_async_ops, the loop over the stats the first loop left in the
\* map, in one of the orders the map may iterate in.
UpdateStats(u, S1) ==
    \E order \in Orders(DOMAIN S1.stats_update) :
        UpdateCommit(u, DOMAIN S1.stats_update,
                     ApplyStats(S1, order, u.metas))

\* AsyncOpsState::update_async_ops, on a batch out of U.
UpdateAsyncOpsFrom(U) ==
    /\ ~panicked
    /\ pc = "update"
    /\ pc' = "idle"
    /\ \E u \in U :
        UpdateStats(u, InsertWith(BatchState(u.stats_update), u.visibility,
                                  u.new, u.metas))

\* AsyncOpsState::update_async_ops, on the batch the stream delivered.
UpdateAsyncOps == UpdateAsyncOpsFrom(Updates)

\* A take_new_items that returns the new items and keeps them.
TakeNewItemsKeep(items) == [taken |-> items, rest |-> items]

\* Store::take_new_items: drains the new items, in insertion order.
TakeNewItems(items) == [taken |-> items, rest |-> <<>>]

\* AsyncOpsState::take_new_async_ops
TakeNewAsyncOps ==
    /\ ~panicked
    /\ pc = "idle"
    /\ LET R == TakeNewItems(new_items)
       IN  /\ new_items' = R.rest
           /\ delivered' =
                [o \in DOMAIN delivered \cup SeqToSet(R.taken) |->
                    (IF o \in DOMAIN delivered THEN delivered[o] ELSE 0)
                    + Cardinality({i \in 1..Len(R.taken) : R.taken[i] = o})]
           /\ last' = [op |-> "take", taken |-> R.taken,
                       expected |-> since_drain, prev_op |-> last.op]
    /\ since_drain' = {}
    /\ UNCHANGED <<internVars, lintVars, ids, store, next_obj,
                   dropped_events,
                   panicked,
                   nbatches, returned, first_seen, evicted, pc>>

\* A retain predicate that keeps an entity dropped for exactly retain_for.
RetainPredicateInclusive(async_op, now, retain_for) ==
    IF IsSome(async_op.stats.dropped_at)
    THEN retain_for >= UnwrapOrDefault(
             DurationSince(now, Unwrap(async_op.stats.dropped_at)))
    ELSE TRUE

\* The predicate of AsyncOpsState::retain_active.
RetainPredicate(async_op, now, retain_for) ==
    IF IsSome(async_op.stats.dropped_at)
    THEN LET d == Unwrap(async_op.stats.dropped_at)
             dropped_for == UnwrapOrDefault(DurationSince(now, d))
         IN  retain_for > dropped_for
    ELSE TRUE

\* Store::retain: keeps the entities the predicate holds of; keep[id] is the
\* value of the predicate for the entity under id.
Retain(st, keep) == [id \in {i \in DOMAIN st : keep[i]} |-> st[id]]

\* AsyncOpsState::retain_active
RetainActive ==
    /\ ~panicked
    /\ pc = "idle"
    /\ \E now \in 0..MaxTime, retain_for \in {0, 2} :
        LET keep == [id \in DOMAIN store |->
                        RetainPredicate(store[id], now, retain_for)]
        IN  /\ store' = Retain(store, keep)
            /\ evicted' = evicted \cup {id \in DOMAIN store : ~keep[id]}
            /\ last' = [op |-> "retain", now |-> now,
                        retain_for |-> retain_for, before |-> store]
    /\ UNCHANGED <<internVars, lintVars, ids, new_items, next_obj,
                   dropped_events,
                   panicked, nbatches, returned, first_seen, since_drain,
                   delivered, pc>>

----------------------------------------------------------------------------
\* The derived durations (impl AsyncOp), read by the views.

\* A total that stops at the first instant after the creation.
TotalCapped(async_op, since) ==
    IF IsSome(async_op.stats.total) THEN Unwrap(async_op.stats.total)
    ELSE IF since > async_op.stats.created_at THEN 1 ELSE 0

\* A total that is always measured from the creation to the query instant.
TotalLive(async_op, since) ==
    UnwrapOrDefault(DurationSince(since, async_op.stats.created_at))

\* AsyncOp::total
Total(async_op, since) ==
    UnwrapOrDefault(IF IsSome(async_op.stats.total)
                    THEN async_op.stats.total
                    ELSE DurationSince(since, async_op.stats.created_at))

\* AsyncOp::busy
Busy(async_op, since) ==
    IF IsSome(async_op.stats.last_poll_started)
       /\ async_op.stats.last_poll_ended = None
    THEN async_op.stats.busy
         + UnwrapOrDefault(
               DurationSince(since, Unwrap(async_op.stats.last_poll_started)))
    ELSE async_op.stats.busy

\* An idle that is always computed from total and busy.
IdleComputed(async_op, since) ==
    UnwrapOrDefault(CheckedSub(Total(async_op, since), Busy(async_op, since)))

\* AsyncOp::idle
Idle(async_op, since) ==
    UnwrapOrDefault(IF IsSome(async_op.stats.idle)
                    THEN async_op.stats.idle
                    ELSE CheckedSub(Total(async_op, since),
                                    Busy(async_op, since)))

\* A dropped() that looks at the last poll instead of the total.
DroppedByPoll(async_op) == IsSome(async_op.stats.last_poll_ended)

\* AsyncOp::dropped
Dropped(async_op) == IsSome(async_op.stats.total)

\* The instants of the model.
Instants == 0..MaxTime

\* proto::async_ops::Stats records with every combination of timestamps:
\* created before or after completion, a poll in progress or ended, a second
\* poll begun after the end of the first, busy time below or above the total.
TimedPbStats ==
    {[created_at |-> Some(c), dropped_at |-> d,
      poll_stats |-> Some([busy_time |-> b, last_poll_started |-> ps,
                           last_poll_ended |-> pe, polls |-> 1]),
      task_id |-> None] :
        c \in {0, 2}, d \in {None, Some(1), Some(3)},
        b \in {None, Some(1), Some(2)},
        ps \in {None, Some(2)}, pe \in {None, Some(1), Some(3)}}

\* Update batches about one async op: its new-entity record or none, and
\* its stats or none.
TimedUpdates ==
    {[new |-> new, stats_update |-> su, metas |-> {1}, visibility |-> "Show",
      dropped_events |-> 0] :
        new \in {<<>>,
                 <<[id |-> Some(1), metadata |-> Some(1),
                    resource_id |-> Some(1), parent_async_op_id |-> None,
                    source |-> "a"]>>},
        su \in {EmptyMap} \cup {(1 :> st) : st \in TimedPbStats}}

\* AsyncOpsState::update_async_ops, on a batch about one async op.
UpdateAsyncOpsTimed == UpdateAsyncOpsFrom(TimedUpdates)

\* A view reads total, busy, idle and dropped of a stored entity as of the
\* instant `since`; prev is the read just before, if nothing came between.
ReadDurations ==
    /\ ~panicked
    /\ pc = "idle"
    /\ \E id \in DOMAIN store, since \in Instants :
        last' = [op |-> "read", id |-> id, since |-> since,
                 total |-> Total(store[id], since),
                 busy |-> Busy(store[id], since),
                 idle |-> Idle(store[id], since),
                 dropped |-> Dropped(store[id]),
                 prev |-> IF last.op = "read"
                          THEN Some([id |-> last.id, since |-> last.since,
                                     total |-> last.total,
                                     idle |-> last.idle])
                          ELSE None]
    /\ UNCHANGED <<internVars, storeVars, lintVars, pc>>

----------------------------------------------------------------------------
\* The sort of the async ops view (impl SortBy).

\* enum SortBy
SortKeys == {"Aid", "Task", "Source", "Total", "Busy", "Idle", "Polls"}

\* Weak::upgrade: the entity behind a weak reference, None once the store
\* has dropped the allocation.
Upgrade(ao) ==
    IF \E id \in DOMAIN store : store[id].obj = ao
    THEN Some(store[CHOOSE id \in DOMAIN store : store[id].obj = ao])
    ELSE None

\* The place of an Option<T> in its derived order, given the place of the
\* T: None comes before every Some.
OptRank(o) == IF o = None THEN 0 ELSE 1 + Unwrap(o)

\* The place of a string in the order of str: "a" < "n/a".
StrRank(str) == IF str = "a" THEN 0 ELSE 1

\* The key of a live entity under a SortBy.
EntityKey(by, a, now) ==
    CASE by = "Aid" -> a.id
      [] by = "Task" -> OptRank(a.stats.task_id)
      [] by = "Source" -> StrRank(heap[a.source])
      [] by = "Total" -> Total(a, now)
      [] by = "Busy" -> Busy(a, now)
      [] by = "Idle" -> Idle(a, now)
      [] by = "Polls" -> a.stats.polls

\* A key closure that puts the dead references after the live ones.
SortKeyDeadLast(by, ao, now) ==
    IF Upgrade(ao) = None THEN 1000
    ELSE EntityKey(by, Unwrap(Upgrade(ao)), now)

\* The key closures of SortBy::sort: ao.upgrade().map(|a| key of a).
SortKey(by, ao, now) ==
    IF Upgrade(ao) = None THEN OptRank(None)
    ELSE OptRank(Some(EntityKey(by, Unwrap(Upgrade(ao)), now)))

\* slice::sort_unstable_by_key: the outcomes are the arrangements of ops in
\* non-decreasing key order; entries with equal keys come in any order.
SortUnstableByKey(ops, key) ==
    {o \in Orders(SeqToSet(ops)) :
        \A i, j \in 1..Len(o) : i < j => key[o[i]] <= key[o[j]]}

\* Update batches for the view to sort the async ops of: the record of
\* async op 1, alone or followed by the record of async op 2, with the same
\* stats for both.
SortUpdates ==
    {u \in Updates :
        /\ u.metas = RemoteIds /\ u.visibility = "Show"
        /\ u.dropped_events = 0
        /\ u.new # <<>>
        /\ \A i \in 1..Len(u.new) :
              /\ u.new[i].id = Some(i) /\ IsSome(u.new[i].metadata)
              /\ IsSome(u.new[i].resource_id)
        /\ DOMAIN u.stats_update = RemoteIds
        /\ \A k \in RemoteIds :
              /\ IsSome(u.stats_update[k].created_at)
              /\ IsSome(u.stats_update[k].poll_stats)}

\* AsyncOpsState::update_async_ops, on a batch for the sorted view.
UpdateAsyncOpsSort == UpdateAsyncOpsFrom(SortUpdates)

\* SortBy::sort on the weak references a view holds: every async op there
\* has been, in some order.  Sorting changes nothing but the view's list, so
\* a sort that follows a sort is left out.
Sort ==
    /\ ~panicked
    /\ pc = "idle"
    /\ next_obj > 1
    /\ last.op # "sort"
    /\ \E by \in SortKeys, now \in {0, MaxTime},
          ops \in Orders(1..(next_obj - 1)) :
        \E sorted \in SortUnstableByKey(
                          ops, [ao \in 1..(next_obj - 1) |->
                                   SortKey(by, ao, now)]) :
            last' = [op |-> "sort", by |-> by, now |-> now, ops |-> ops,
                     sorted |-> sorted,
                     key |-> [ao \in 1..(next_obj - 1) |->
                                 SortKey(by, ao, now)]]
    /\ UNCHANGED <<internVars, storeVars, lintVars, pc>>

----------------------------------------------------------------------------
\* warnings.rs

\* SelfWakePercent::DEFAULT_PERCENT
DEFAULT_PERCENT == 50

\* NeverYielded::DEFAULT_DURATION, in seconds
DEFAULT_DURATION == 1

\* LargeFuture::DEFAULT_MIN_SIZE_BYTES
DEFAULT_MIN_SIZE_BYTES == 1024

\* The rules of the model, in the order the task store holds its linters.
Rules == <<"SelfWakePercent", "NeverYielded">>

\* A self-wake rule that warns at its threshold too.
SelfWakePercentCheckInclusive(min_percent, task) ==
    IF task.is_blocking THEN "Ok"
    ELSE IF task.self_wake_percent >= min_percent THEN "Warn"
    ELSE "Ok"

\* <SelfWakePercent as Warn<Task>>::check
SelfWakePercentCheck(min_percent, task) ==
    IF task.is_blocking THEN "Ok"
    ELSE IF task.self_wake_percent > min_percent THEN "Warn"
    ELSE "Ok"

\* A never-yielded rule that warns only past its minimum duration.
NeverYieldedCheckPast(min_duration, task) ==
    IF task.is_blocking THEN "Ok"
    ELSE IF task.state # "Running" THEN "Ok"
    ELSE IF task.total_polls > 1 THEN "Ok"
    ELSE IF task.busy > min_duration THEN "Warn"
    ELSE "Recheck"

\* <NeverYielded as Warn<Task>>::check; task.busy is busy(SystemTime::now()).
NeverYieldedCheck(min_duration, task) ==
    IF task.is_blocking THEN "Ok"
    ELSE IF task.state # "Running" THEN "Ok"
    ELSE IF task.total_polls > 1 THEN "Ok"
    ELSE IF task.busy >= min_duration THEN "Warn"
    ELSE "Recheck"

\* A large-future rule that warns above its threshold only.
LargeFutureCheckAbove(min_size, task) ==
    IF task.is_blocking THEN "Ok"
    ELSE IF IsSome(task.size_bytes)
    THEN IF Unwrap(task.size_bytes) > min_size THEN "Warn" ELSE "Ok"
    ELSE "Ok"

\* <LargeFuture as Warn<Task>>::check
LargeFutureCheck(min_size, task) ==
    IF task.is_blocking THEN "Ok"
    ELSE IF IsSome(task.size_bytes)
    THEN IF Unwrap(task.size_bytes) >= min_size THEN "Warn" ELSE "Ok"
    ELSE "Ok"

\* self.0.check(val), through the Rc<dyn Warn<Task>> of the rule.
WarnCheck(rule, task) ==
    IF rule = "SelfWakePercent"
    THEN SelfWakePercentCheck(DEFAULT_PERCENT, task)
    ELSE IF rule = "LargeFuture"
    THEN LargeFutureCheck(DEFAULT_MIN_SIZE_BYTES, task)
    ELSE NeverYieldedCheck(DEFAULT_DURATION, task)

\* Linter::new: the Rc has one owner, the Linter itself.
LinterNew == 1

\* A check that hands out the Warning lint without cloning the Rc.
LinterCheckNoClone(L, rule, task) ==
    [L EXCEPT !.lint = IF WarnCheck(rule, task) = "Warn" THEN "Warning"
                       ELSE WarnCheck(rule, task),
              !.results[rule] = WarnCheck(rule, task)]

\* Linter::check: Lint::Warning carries a clone of the Rc, one more owner.
LinterCheck(L, rule, task) ==
    IF WarnCheck(rule, task) = "Warn"
    THEN [L EXCEPT !.linters[rule] = @ + 1,
                   !.lint = "Warning",
                   !.results[rule] = "Warn"]
    ELSE [L EXCEPT !.lint = WarnCheck(rule, task),
                   !.results[rule] = WarnCheck(rule, task)]

\* Linter::count
LinterCount(rule) == linters[rule] - 1

\* An entity that lets go of its handle when the rule is to be rechecked.
HoldLintRecheckClears(L, rule) ==
    IF L.lint = "Warning"
    THEN IF rule \in L.held
         THEN [L EXCEPT !.linters[rule] = @ - 1]
         ELSE [L EXCEPT !.held = @ \cup {rule}]
    ELSE IF rule \in L.held
         THEN [L EXCEPT !.held = @ \ {rule}, !.linters[rule] = @ - 1]
         ELSE L

\* What the entity does with the Lint of one rule.  Warning: it keeps the
\* Linter in the lint, in place of the one it held for the rule, which is
\* dropped.  Ok: it drops the Linter it held for the rule.  Recheck: it keeps
\* what it has.
HoldLint(L, rule) ==
    IF L.lint = "Warning"
    THEN IF rule \in L.held
         THEN [L EXCEPT !.linters[rule] = @ - 1]
         ELSE [L EXCEPT !.held = @ \cup {rule}]
    ELSE IF L.lint = "Ok" /\ rule \in L.held
         THEN [L EXCEPT !.held = @ \ {rule}, !.linters[rule] = @ - 1]
         ELSE L

\* The rules evaluated against the entity, one after the other.
RECURSIVE LintRules(_, _, _)
LintRules(L, rules, task) ==
    IF rules = <<>> THEN L
    ELSE LintRules(HoldLint(LinterCheck(L, Head(rules), task), Head(rules)),
                   Tail(rules), task)

\* The data the rules read off a task.
TaskSnapshots ==
    [is_blocking : BOOLEAN, self_wake_percent : {0, DEFAULT_PERCENT, 86},
     state : {"Running", "Idle"}, total_polls : {1, 2},
     busy : {0, DEFAULT_DURATION},
     size_bytes : {None, Some(DEFAULT_MIN_SIZE_BYTES - 1),
                   Some(DEFAULT_MIN_SIZE_BYTES),
                   Some(DEFAULT_MIN_SIZE_BYTES + 1)}]

\* The data of a task as it appears in the task store.
NewTaskData ==
    [is_blocking |-> FALSE, self_wake_percent |-> 0, state |-> "Idle",
     total_polls |-> 1, busy |-> 0, size_bytes |-> None]

\* The data a task of the task store changes to: async tasks of unknown
\* size, waking themselves or not, on their first poll or past it.
LintSnapshots ==
    {task \in TaskSnapshots :
        /\ ~task.is_blocking
        /\ task.size_bytes = None
        /\ task.self_wake_percent # DEFAULT_PERCENT
        /\ task.state = "Running"}

\* A Task goes out of existence: the Linters it holds are dropped with it.
DropTask(t) ==
    /\ linters' = [r \in DOMAIN linters |->
                      linters[r] - (IF r \in warnings[t] THEN 1 ELSE 0)]
    /\ warnings' = [x \in DOMAIN warnings \ {t} |-> warnings[x]]
    /\ task_data' = [x \in DOMAIN task_data \ {t} |-> task_data[x]]
    /\ verdict' = [x \in DOMAIN verdict \ {t} |-> verdict[x]]

\* A task appears in the task store; it holds no Linter yet.
AddTask ==
    /\ ~panicked
    /\ next_task <= MaxTasks
    /\ next_task' = next_task + 1
    /\ task_store' = task_store \cup {next_task}
    /\ warnings' = (next_task :> {}) @@ warnings
    /\ task_data' = (next_task :> NewTaskData) @@ task_data
    /\ verdict' = (next_task :> [r \in SeqToSet(Rules) |-> "none"]) @@ verdict
    /\ last' = [op |-> "add", task |-> next_task]
    /\ UNCHANGED <<linters, task_view, ruleVars, internVars, storeVars, pc>>

\* The effect of a lint pass over task t, L being what the rules left.
LintCommit(t, task, L) ==
    /\ linters' = L.linters
    /\ warnings' = [warnings EXCEPT ![t] = L.held]
    /\ task_data' = [task_data EXCEPT ![t] = task]
    /\ verdict' = [verdict EXCEPT ![t] =
                      [r \in SeqToSet(Rules) |->
                          IF L.results[r] = "Recheck" THEN @[r]
                          ELSE L.results[r]]]
    /\ last' = [op |-> "lint", task |-> t, snapshot |-> task,
                results |-> L.results,
                before |-> [linters |-> linters, warnings |-> warnings]]
    /\ UNCHANGED <<task_store, task_view, next_task, ruleVars, internVars, storeVars,
                   pc>>

\* The data of a task of the task store changed: the rules are evaluated
\* against the task.
LintTask ==
    /\ ~panicked
    /\ \E t \in task_store, task \in LintSnapshots :
        LintCommit(t, task,
                   LintRules([linters |-> linters, held |-> warnings[t],
                              lint |-> "Ok",
                              results |-> [r \in SeqToSet(Rules) |-> "Ok"]],
                             Rules, task))

\* The task store's retain evicts a task: the store drops its Rc of the
\* Task.  The Task goes out of existence unless the open detail view holds
\* another Rc of it.
EvictTask ==
    /\ ~panicked
    /\ \E t \in task_store :
        /\ task_store' = task_store \ {t}
        /\ IF task_view = Some(t)
           THEN UNCHANGED <<linters, warnings, task_data, verdict>>
           ELSE DropTask(t)
        /\ last' = [op |-> "evict", task |-> t,
                    before |-> [linters |-> linters, warnings |-> warnings]]
        /\ UNCHANGED <<task_view, next_task, ruleVars, internVars, storeVars, pc>>

----------------------------------------------------------------------------
\* view/task.rs

\* TaskView::new: the detail view of a task of the task store opens; it
\* holds an Rc of the Task.
TaskViewNew ==
    /\ ~panicked
    /\ task_view = None
    /\ \E t \in task_store :
        /\ task_view' = Some(t)
        /\ last' = [op |-> "open", task |-> t]
    /\ UNCHANGED <<linters, warnings, task_data, task_store, next_task,
                   verdict, ruleVars, internVars, storeVars, pc>>

\* The detail view closes: its Rc of the Task is dropped, and the Task with
\* it if the task store holds it no more.
TaskViewDrop ==
    /\ ~panicked
    /\ task_view # None
    /\ task_view' = None
    /\ IF Unwrap(task_view) \in task_store
       THEN UNCHANGED <<linters, warnings, task_data, verdict>>
       ELSE DropTask(Unwrap(task_view))
    /\ last' = [op |-> "close", task |-> Unwrap(task_view),
                before |-> [linters |-> linters, warnings |-> warnings]]
    /\ UNCHANGED <<task_store, next_task, ruleVars, internVars, storeVars, pc>>

\* Linter::format: the debug assertion that the rule warns about the task.
LinterFormatAsserts(rule, task) == WarnCheck(rule, task) = "Warn"

\* TaskView::render: linter.format(task) for every Linter the task holds.
\* A failed assertion panics.
TaskViewRender ==
    /\ ~panicked
    /\ task_view # None
    /\ panicked' = \E r \in warnings[Unwrap(task_view)] :
                      ~LinterFormatAsserts(r, task_data[Unwrap(task_view)])
    /\ last' = [op |-> "render", task |-> Unwrap(task_view),
                formatted |-> warnings[Unwrap(task_view)]]
    /\ UNCHANGED <<lintVars, internVars, ids, store, new_items, next_obj,
                   dropped_events, nbatches, returned, first_seen,
                   since_drain, delivered, evicted, pc>>

----------------------------------------------------------------------------
\* The rules, evaluated on their own.

\* <SelfWakePercent as Warn<Task>>::format, the pieces of the sentence.
SelfWakePercentFormat(min_percent, task) ==
    <<"This task has woken itself for more than ", DisplayU64(min_percent),
      "% of its total wakeups (", DisplayU64(task.self_wake_percent), "%)">>

\* <LargeFuture as Warn<Task>>::format, the pieces of the sentence.
LargeFutureFormat(task) ==
    <<"This task occupies a large amount of stack space (",
      DisplayU64(Unwrap(task.size_bytes)), " bytes)">>

\* The thresholds a self-wake rule is configured with.
Percents == {0, DEFAULT_PERCENT, 86}

\* SelfWakePercent::new(p), then its check of a task and, on Warn, its format.
CheckSelfWakePercent ==
    /\ ~panicked
    /\ \E p \in Percents, task \in TaskSnapshots :
        last' = [op |-> "check", rule |-> "SelfWakePercent", config |-> p,
                 task |-> task,
                 result |-> SelfWakePercentCheck(p, task),
                 formatted |->
                    IF SelfWakePercentCheck(p, task) = "Warn"
                    THEN Some(SelfWakePercentFormat(p, task)) ELSE None]
    /\ UNCHANGED <<internVars, storeVars, lintVars, pc>>

\* LargeFuture::default(), then its check of a task and, on Warn, its format.
CheckLargeFuture ==
    /\ ~panicked
    /\ \E task \in TaskSnapshots :
        last' = [op |-> "check", rule |-> "LargeFuture",
                 config |-> DEFAULT_MIN_SIZE_BYTES, task |-> task,
                 result |-> LargeFutureCheck(DEFAULT_MIN_SIZE_BYTES, task),
                 formatted |->
                    IF LargeFutureCheck(DEFAULT_MIN_SIZE_BYTES, task) = "Warn"
                    THEN Some(LargeFutureFormat(task)) ELSE None]
    /\ UNCHANGED <<internVars, storeVars, lintVars, pc>>

----------------------------------------------------------------------------
\* One task, its polls and the never-yielded rule, as time passes.

\* The stats of a task: the data the rules read, with `busy` the accumulated
\* busy time, and the start of the poll the task is in or was last in.
PolledTasks ==
    [is_blocking : BOOLEAN, self_wake_percent : {0},
     state : {"Running", "Idle"}, total_polls : {1, 2},
     busy : {0, DEFAULT_DURATION}, size_bytes : {None},
     last_poll_started : {0, 1}]

\* Task::busy: the accumulated busy time, plus the time since the start of
\* the poll while the task is in a poll.
TaskBusy(task, now) ==
    IF task.state = "Running"
    THEN task.busy
         + UnwrapOrDefault(DurationSince(now, task.last_poll_started))
    ELSE task.busy

\* The task as a rule sees it at instant now.
Observed(task, now) == [task EXCEPT !.busy = TaskBusy(task, now)]

\* The stats of a task arrive.
TaskAppears ==
    /\ ~panicked
    /\ polled_task = None
    /\ \E task \in PolledTasks :
        /\ polled_task' = Some(task)
        /\ last' = [op |-> "stats", task |-> task]
    /\ UNCHANGED <<wall_clock, taskVars, internVars, storeVars, pc>>

\* The poll the task is in ends: new stats arrive, with the time of the poll
\* added to the busy time.
TaskYields ==
    /\ ~panicked
    /\ polled_task # None
    /\ Unwrap(polled_task).state = "Running"
    /\ polled_task' =
        Some([Unwrap(polled_task) EXCEPT
                 !.state = "Idle",
                 !.busy = TaskBusy(Unwrap(polled_task), wall_clock)])
    /\ last' = [op |-> "stats", task |-> Unwrap(polled_task')]
    /\ UNCHANGED <<wall_clock, taskVars, internVars, storeVars, pc>>

\* Time advances.
ClockAdvance ==
    /\ wall_clock < MaxTime
    /\ wall_clock' = wall_clock + 1
    /\ UNCHANGED <<polled_task, taskVars, internVars, storeVars, pc, last>>

\* The lint pass evaluates NeverYielded::default() against the task.
CheckNeverYielded ==
    /\ ~panicked
    /\ polled_task # None
    /\ last' = [op |-> "check", rule |-> "NeverYielded",
                config |-> DEFAULT_DURATION,
                task |-> Unwrap(polled_task), now |-> wall_clock,
                busy |-> TaskBusy(Unwrap(polled_task), wall_clock),
                result |-> NeverYieldedCheck(
                               DEFAULT_DURATION,
                               Observed(Unwrap(polled_task), wall_clock)),
                prev |-> IF last.op = "check" THEN Some(last.result)
                         ELSE None]
    /\ UNCHANGED <<ruleVars, taskVars, internVars, storeVars, pc>>

----------------------------------------------------------------------------
\* view/controls.rs

\* A Span is its text, a Line the sequence of its spans; all text of the
\* model is ASCII, one column a character.
RECURSIVE LineWidth(_)
LineWidth(spans) ==
    IF spans = <<>> THEN 0 ELSE Len(Head(spans)) + LineWidth(Tail(spans))

\* UNIVERSAL_CONTROLS
UNIVERSAL_CONTROLS ==
    <<[action |-> "toggle pause",
       keys |-> <<[base |-> "space", utf8 |-> None]>>],
      [action |-> "quit", keys |-> <<[base |-> "q", utf8 |-> None]>>]>>

\* Styles::if_utf8
IfUtf8(styles, utf8, base) == IF styles.utf8 THEN utf8 ELSE base

\* " ".repeat(indent)
RECURSIVE Repeat(_)
Repeat(indent) == IF indent = 0 THEN "" ELSE " " \o Repeat(indent - 1)

\* ControlDisplay::to_spans, the loop over the keys from key idx on.
RECURSIVE KeySpans(_, _, _)
KeySpans(keys, idx, styles) ==
    IF idx >= Len(keys) THEN <<>>
    ELSE (IF idx > 0 THEN <<" or ">> ELSE <<>>)
         \o <<IF keys[idx + 1].utf8 # None
              THEN IfUtf8(styles, Unwrap(keys[idx + 1].utf8),
                          keys[idx + 1].base)
              ELSE keys[idx + 1].base>>
         \o KeySpans(keys, idx + 1, styles)

\* ControlDisplay::to_spans
ToSpans(control, styles, indent) ==
    <<Repeat(indent), control.action, " = ">>
    \o KeySpans(control.keys, 0, styles)

\* Controls::new, `separator`
separator == ", "

\* current_line.push_span / current_line.spans.extend: spans go on the end
\* of the last line.
ExtendCurrent(lines, spans) ==
    [lines EXCEPT ![Len(lines)] = @ \o spans]

\* Controls::new, needed_trailing_separator_width
NeededTrailingSeparatorWidth(idx, controls_count) ==
    IF idx = controls_count + 1 THEN Len(separator) ELSE 0

\* Controls::new, total_width
TotalWidth(lines, line, idx, controls_count) ==
    LineWidth(lines[Len(lines)]) + Len(separator) + LineWidth(line)
    + NeededTrailingSeparatorWidth(idx, controls_count)

\* Controls::new, the body of the loop for the control `line` at idx.
PlaceControl(lines, line, idx, controls_count, area_width) ==
    IF idx = 0 \/ LineWidth(lines[Len(lines)]) = 0
    THEN ExtendCurrent(lines, line)
    ELSE IF TotalWidth(lines, line, idx, controls_count) <= area_width
    THEN ExtendCurrent(ExtendCurrent(lines, <<separator>>), line)
    ELSE Append(ExtendCurrent(lines, <<separator>>), line)

\* Controls::new, the loop over line_controls from idx on.
RECURSIVE ControlsLoop(_, _, _, _)
ControlsLoop(lines, line_controls, idx, area_width) ==
    IF idx >= Len(line_controls) THEN lines
    ELSE ControlsLoop(PlaceControl(lines, line_controls[idx + 1], idx,
                                   Len(line_controls), area_width),
                      line_controls, idx + 1, area_width)

\* Controls::new, line_controls: the view controls, then the universal ones.
LineControls(view_controls, styles) ==
    [i \in 1..(Len(view_controls) + Len(UNIVERSAL_CONTROLS)) |->
        IF i <= Len(view_controls)
        THEN ToSpans(view_controls[i], styles, 0)
        ELSE ToSpans(UNIVERSAL_CONTROLS[i - Len(view_controls)], styles, 0)]

\* The lines of Controls::new.
ControlsLines(view_controls, area_width, styles) ==
    ControlsLoop(<<<<"controls: ">>>>, LineControls(view_controls, styles),
                 0, area_width)

\* The controls the views have of their own; "<" and ">" stand for the
\* arrows, one column each.
ViewControlDisplays ==
    {[action |-> "sort",
      keys |-> <<[base |-> "left", utf8 |-> Some("<")],
                 [base |-> "right", utf8 |-> Some(">")]>>],
     [action |-> "invert", keys |-> <<[base |-> "i", utf8 |-> None]>>]}

ViewControls ==
    UNION {[1..n -> ViewControlDisplays] : n \in 0..MaxViewControls}

\* Controls::new, the widget built of the lines: its text and its height.
ControlsOf(view_controls, area_width, styles, lines) ==
    [op |-> "controls", view_controls |-> view_controls,
     area_width |-> area_width, styles |-> styles,
     lines |-> lines, height |-> Len(lines)]

\* Controls::new
ControlsNew ==
    /\ ~panicked
    /\ \E view_controls \in ViewControls, area_width \in 0..MaxAreaWidth,
          utf8 \in BOOLEAN :
        last' = ControlsOf(view_controls, area_width, [utf8 |-> utf8],
                           ControlsLines(view_controls, area_width,
                                         [utf8 |-> utf8]))
    /\ UNCHANGED <<internVars, storeVars, lintVars, pc>>

----------------------------------------------------------------------------
Init ==
    /\ strings = {}
    /\ heap = <<>>
    /\ held = <<>>
    /\ ids = [k \in Kinds |-> NewIds]
    /\ store = EmptyMap
    /\ new_items = <<>>
    /\ next_obj = 1
    /\ dropped_events = 0
    /\ panicked = FALSE
    /\ nbatches = 0
    /\ pc = "idle"
    /\ since_sweep = NoSinceSweep
    /\ returned = {}
    /\ first_seen = [k \in Kinds |-> <<>>]
    /\ since_drain = {}
    /\ delivered = EmptyMap
    /\ evicted = {}
    /\ linters = [r \in SeqToSet(Rules) |-> LinterNew]
    /\ warnings = EmptyMap
    /\ task_data = EmptyMap
    /\ task_store = {}
    /\ task_view = None
    /\ next_task = 1
    /\ verdict = EmptyMap
    /\ wall_clock = 0
    /\ polled_task = None
    /\ last = [op |-> "init"]

NextIntern ==
    \/ ClientString
    \/ ClientStringRef
    \/ ClientDrop
    \/ RetainReferenced

SpecIntern == Init /\ [][NextIntern]_vars

NextSort ==
    \/ NextUpdate
    \/ UpdateAsyncOpsSort
    \/ RetainActive
    \/ Sort

SpecSort == Init /\ [][NextSort]_vars

NextLint ==
    \/ AddTask
    \/ LintTask
    \/ EvictTask
    \/ TaskViewNew
    \/ TaskViewDrop
    \/ TaskViewRender

SpecLint == Init /\ [][NextLint]_vars

NextRules ==
    \/ CheckSelfWakePercent
    \/ CheckLargeFuture

SpecRules == Init /\ [][NextRules]_vars

NextControls == ControlsNew

SpecControls == Init /\ [][NextControls]_vars

NextYield ==
    \/ TaskAppears
    \/ TaskYields
    \/ ClockAdvance
    \/ CheckNeverYielded

\* The clock advances, and the update loop lints its tasks again on every
\* turn.
SpecYield ==
    /\ Init
    /\ [][NextYield]_vars
    /\ WF_vars(ClockAdvance)
    /\ WF_vars(CheckNeverYielded)

NextDuration ==
    \/ NextUpdate
    \/ UpdateAsyncOpsTimed
    \/ ReadDurations

SpecDuration == Init /\ [][NextDuration]_vars

Next ==
    \/ NextUpdate
    \/ UpdateAsyncOps
    \/ TakeNewAsyncOps
    \/ RetainActive
    \/ RetainReferenced

Spec == Init /\ [][Next]_vars

----------------------------------------------------------------------------
\* The interner.

EntriesFor(s) == {a \in strings : heap[a] = s}

\* C1: the interner holds at most one entry per content, and an intern request
\* for a content already requested since the last sweep returns the same
\* allocation as that earlier request, content-equal, and adds no entry.
C1_InternDeduplicates ==
    /\ \A a, b \in strings : heap[a] = heap[b] => a = b
    /\ last.op = "intern" =>
        /\ heap[last.handle] = last.content
        /\ IsSome(last.prev) =>
            /\ last.handle = Unwrap(last.prev)
            /\ ~last.added

\* A second request for a content, with no sweep since the first; the client
\* has dropped the first handle in between.
C1_Witness ==
    /\ last.op = "intern"
    /\ IsSome(last.prev)
    /\ held[last.handle] = 1

\* C2: retain_referenced keeps exactly the entries that had an external
\* holder, each under its allocation, and removes all the others.
C2_SweepRemovesUnreferenced ==
    last.op = "sweep" => strings = last.before \cap last.external

\* A sweep that removed one entry and kept another.
C2_Witness ==
    /\ last.op = "sweep"
    /\ strings # {}
    /\ last.before \ strings # {}

\* C3: an intern request for a content whose earlier allocation was swept
\* returns an allocation that is not the swept one, content-equal, and the
\* interner then holds exactly one entry for the content.
C3_FreshAfterSweep ==
    (last.op = "intern" /\ last.stale # {}) =>
        /\ last.handle \notin last.stale
        /\ heap[last.handle] = last.content
        /\ Cardinality(EntriesFor(last.content)) = 1

\* The first request for a content after its allocation was swept.
C3_Witness ==
    /\ last.op = "intern"
    /\ last.stale # {}
    /\ last.added

----------------------------------------------------------------------------
\* The identifier remappers and the store.

CountIn(seq, x) == Cardinality({i \in 1..Len(seq) : seq[i] = x})
IndexIn(seq, x) == CHOOSE i \in 1..Len(seq) : seq[i] = x

BatchApplied == last.op = "update"

\* The stored entity of remote id r, in the store st under the remapper m.
HasEntity(m, st, r) == r \in DOMAIN m /\ m[r] \in DOMAIN st
RemoteOf(m, L) == CHOOSE r \in DOMAIN m : m[r] = L

\* A new-entity record that gets as far as the stats lookup: it has its remote
\* id, its metadata id and a metadata-table entry.
ReachesStats(rec, metas) ==
    /\ rec.id # None
    /\ rec.metadata # None
    /\ Unwrap(rec.metadata) \in metas

\* A new-entity record with all four requirements.
HasRequired(rec, metas) == ReachesStats(rec, metas) /\ rec.resource_id # None

\* The records of batch u with remote id r that reach the stats lookup.
Takers(u, r) ==
    {i \in 1..Len(u.new) :
        u.new[i].id = Some(r) /\ ReachesStats(u.new[i], u.metas)}
IsFirstTaker(u, r, i) == i \in Takers(u, r) /\ \A j \in Takers(u, r) : i <= j

\* The records of the latest batch with remote id r that were built.
Built(r) ==
    {i \in 1..Len(last.log) :
        last.update.new[i].id = Some(r) /\ last.log[i] # None}

\* Every stats record of batch u can be converted.
StatsUsable(u) ==
    \A k \in DOMAIN u.stats_update :
        /\ u.stats_update[k].created_at # None
        /\ u.stats_update[k].poll_stats # None

\* C4: every id_for call for one remote id of one kind returns the same local
\* id, also when the entity was evicted in between.
C4_IdsStable ==
    /\ \A t1, t2 \in returned :
        (t1[1] = t2[1] /\ t1[2] = t2[2]) => t1[3] = t2[3]
    /\ \A t \in returned : ids[t[1]].map[t[2]] = t[3]

\* An entity is stored again under a local id that a retention sweep evicted.
C4_Witness ==
    /\ BatchApplied
    /\ \E i \in 1..Len(last.log) :
        /\ last.log[i] # None
        /\ Unwrap(last.log[i]).id \in evicted

\* C5: the k-th distinct remote id passed to id_for of a kind has the k-th
\* local id, and no two remote ids of a kind share a local id.
C5_FirstSeenOrder ==
    \A k \in Kinds :
        /\ DOMAIN ids[k].map = SeqToSet(first_seen[k])
        /\ \A n \in 1..Len(first_seen[k]) :
            /\ ids[k].map[first_seen[k][n]] = FirstId + n - 1
            /\ <<k, first_seen[k][n], FirstId + n - 1>> \in returned
        /\ \A r1, r2 \in DOMAIN ids[k].map :
            ids[k].map[r1] = ids[k].map[r2] => r1 = r2

\* Remote id 2 was seen before remote id 1, and both have an entity.
C5_Witness ==
    /\ first_seen["async_op"] = <<2, 1>>
    /\ DOMAIN store = {1, 2}

C7_MalformedSkippedOnly ==
    (last.op \in {"update", "panic"} /\ StatsUsable(last.update)) =>
        /\ BatchApplied
        /\ \A i \in 1..Len(last.update.new) :
            LET rec == last.update.new[i]
            IN  /\ ~HasRequired(rec, last.update.metas) => last.log[i] = None
                /\ (/\ HasRequired(rec, last.update.metas)
                    /\ Unwrap(rec.id) \in DOMAIN last.update.stats_update
                    /\ \A j \in 1..(i - 1) :
                        ~(/\ last.update.new[j].id = rec.id
                          /\ HasRequired(last.update.new[j],
                                         last.update.metas)))
                   => last.log[i] # None

\* Record i of the latest batch is in the store under the local id its remote
\* id has in first-seen order.
StoredInOrder(i) ==
    /\ last.log[i] # None
    /\ LET b == Unwrap(last.log[i])
           r == Unwrap(last.update.new[i].id)
       IN  /\ b.id \in DOMAIN store
           /\ store[b.id].obj = b.obj
           /\ r \in SeqToSet(first_seen["async_op"])
           /\ b.id = FirstId + IndexIn(first_seen["async_op"], r) - 1

C10_DeltaFrame ==
    BatchApplied =>
        /\ \A L \in DOMAIN last.before.store :
            LET e == last.before.store[L]
                r == RemoteOf(last.before.ids["async_op"].map, L)
            IN  (\/ r \notin DOMAIN last.update.stats_update
                 \/ r \in last.deltas /\ e.meta_id \notin last.update.metas)
                => L \in DOMAIN store /\ store[L] = e
        /\ \A k \in last.deltas :
            ~HasEntity(last.before.ids["async_op"].map, last.before.store, k)
            => ~HasEntity(ids["async_op"].map, store, k)

\* A completed-stats delta arrived for a stored, still active entity whose
\* metadata was absent from the table.
C10_Witness ==
    /\ BatchApplied
    /\ \E L \in DOMAIN last.before.store :
        LET e == last.before.store[L]
            r == RemoteOf(last.before.ids["async_op"].map, L)
        IN  /\ r \in last.deltas
            /\ e.meta_id \notin last.update.metas
            /\ e.stats.dropped_at = None
            /\ last.update.stats_update[r].dropped_at # None

----------------------------------------------------------------------------
\* The retention sweep.

\* How long before `now` the instant d lies; zero when d is after `now`.
Ago(now, d) == IF now >= d THEN now - d ELSE 0

\* The entities of store st that completed at least retain_for before now.
Expired(st, now, retain_for) ==
    {id \in DOMAIN st :
        /\ st[id].stats.dropped_at # None
        /\ Ago(now, st[id].stats.dropped_at[1]) >= retain_for}

\* C11: retain_active(now, retain_for) removes exactly the entities that
\* have a completion time d with now - d, clamped at zero, >= retain_for, and
\* leaves the others as they were; an entity without a completion time is
\* never removed.
C11_RetainActive ==
    last.op = "retain" =>
        /\ DOMAIN store =
              DOMAIN last.before \ Expired(last.before, last.now,
                                           last.retain_for)
        /\ \A id \in DOMAIN store : store[id] = last.before[id]
        /\ \A id \in DOMAIN last.before :
              last.before[id].stats.dropped_at = None => id \in DOMAIN store

\* A sweep removed a completed entity and kept an active one.
C11_Witness ==
    /\ last.op = "retain"
    /\ \E id \in DOMAIN last.before : id \notin DOMAIN store
    /\ \E id \in DOMAIN store : store[id].stats.dropped_at = None

----------------------------------------------------------------------------
\* The derived durations.

\* A view has just read the durations of the stored entity Read.
Reading == last.op = "read"
Read == store[last.id]

\* The read before was of the same entity, with nothing in between.
SameAsPrev == last.prev # None /\ last.prev[1].id = last.id

Max(a, b) == IF a >= b THEN a ELSE b

\* a - b, zero when b exceeds a.
Monus(a, b) == IF a >= b THEN a - b ELSE 0

\* C12: for an entity that is still active and whose stats did not change in
\* between, total at a later instant is at least total at an earlier one, and
\* total(now) is now - created_at whenever now is not before created_at.
C12_TotalMonotone ==
    (Reading /\ Read.stats.dropped_at = None) =>
        /\ last.since >= Read.stats.created_at
              => last.total = last.since - Read.stats.created_at
        /\ (SameAsPrev /\ last.prev[1].since < last.since)
              => last.total >= last.prev[1].total

\* Two reads of an active entity, the later one with the greater total.
C12_Witness ==
    /\ Reading
    /\ Read.stats.dropped_at = None
    /\ SameAsPrev
    /\ last.prev[1].since < last.since
    /\ last.total > last.prev[1].total

\* The latest poll start of the entity has no matching poll end: there is
\* none, or the one there is belongs to an earlier poll.
MidPoll(e) ==
    /\ e.stats.last_poll_started # None
    /\ \/ e.stats.last_poll_ended = None
       \/ e.stats.last_poll_ended[1] < e.stats.last_poll_started[1]

\* C13: busy(now) is the accumulated busy duration plus the zero-clamped
\* time since last-poll-start whenever the latest poll start has no matching
\* poll end (a later poll in progress included), and the accumulated busy
\* duration alone otherwise.
C13_BusyMidPoll ==
    Reading =>
        last.busy = Read.stats.busy
                    + (IF MidPoll(Read)
                       THEN Ago(last.since, Read.stats.last_poll_started[1])
                       ELSE 0)

\* C14 as stated, its exact part: for a completed entity idle(now) +
\* busy(now) equals total(now), whatever its busy time and poll markers.
C14_Original ==
    (Reading /\ Read.stats.dropped_at # None) =>
        last.idle + last.busy = last.total

\* C14: idle(now) + busy(now) is the larger of total(now) and busy(now) for
\* an active entity; for a completed one it is the larger of the stored
\* total and the accumulated busy duration, plus the time busy(now) adds for
\* a poll in progress.  So the sum equals total(now) exactly when busy does
\* not exceed total and, for a completed entity, no poll counts as in progress.
C14_IdleBusyTotal ==
    Reading =>
        /\ Read.stats.dropped_at = None
              => last.idle + last.busy = Max(last.total, last.busy)
        /\ Read.stats.dropped_at # None
              => last.idle + last.busy =
                    Max(last.total, Read.stats.busy)
                    + (last.busy - Read.stats.busy)
        /\ (/\ last.busy <= last.total
            /\ Read.stats.dropped_at # None => last.busy = Read.stats.busy)
              => last.idle + last.busy = last.total

\* A completed entity with busy time below its total and no poll in
\* progress was read: idle and busy add up to the total.
C14_Witness ==
    /\ Reading
    /\ Read.stats.dropped_at # None
    /\ Read.stats.busy > 0
    /\ last.busy < last.total
    /\ last.idle + last.busy = last.total

\* C15 as stated: for a completed entity total(now) is completion time minus
\* creation time and idle(now) is that total minus the accumulated busy
\* duration.
C15_Original ==
    (Reading /\ Read.stats.dropped_at # None) =>
        /\ last.total = Read.stats.dropped_at[1] - Read.stats.created_at
        /\ last.idle = last.total - Read.stats.busy

\* C15: for a completed entity total(now) is completion time minus creation
\* time, zero when the completion precedes the creation, and idle(now) is
\* that total minus the accumulated busy duration, zero when the busy
\* duration exceeds the total; both are the same at every query instant.
C15_CompletedConstant ==
    (Reading /\ Read.stats.dropped_at # None) =>
        /\ last.total = Monus(Read.stats.dropped_at[1], Read.stats.created_at)
        /\ last.idle = Monus(last.total, Read.stats.busy)
        /\ SameAsPrev => /\ last.total = last.prev[1].total
                         /\ last.idle = last.prev[1].idle

\* A completed entity was read at two different instants, its total and
\* idle both above zero.
C15_Witness ==
    /\ Reading
    /\ Read.stats.dropped_at # None
    /\ SameAsPrev
    /\ last.prev[1].since # last.since
    /\ last.total > 0
    /\ last.idle > 0

\* C16: every stored entity is either active, with no completion time and
\* no stored total or idle, or completed, with a completion time and both a
\* stored total and a stored idle; dropped() is true exactly of the
\* completed ones.
C16_ActiveOrCompleted ==
    \A id \in DOMAIN store :
        LET st == store[id].stats
        IN  \/ /\ st.dropped_at = None
               /\ st.total = None
               /\ st.idle = None
               /\ ~Dropped(store[id])
            \/ /\ st.dropped_at # None
               /\ st.total # None
               /\ st.idle # None
               /\ Dropped(store[id])

\* A stats delta completed an entity that was stored as active.
C16_Witness ==
    /\ BatchApplied
    /\ \E id \in DOMAIN store \cap DOMAIN last.before.store :
        /\ last.before.store[id].stats.dropped_at = None
        /\ store[id].stats.dropped_at # None
        /\ Dropped(store[id])

\* C17: durations from inconsistent clocks are zero, and no error: the
\* stored total and idle of an entity completed before its creation; total(now)
\* of an active entity with now before created_at; the in-poll time with now
\* before last-poll-start; the stored idle when the accumulated busy duration
\* exceeds the total, and idle(now) of an active entity when busy(now)
\* exceeds total(now).
C17_ClampedToZero ==
    /\ \A id \in DOMAIN store :
        LET st == store[id].stats
        IN  /\ (st.dropped_at # None /\ st.dropped_at[1] < st.created_at)
                  => st.total = Some(0) /\ st.idle = Some(0)
            /\ (st.total # None /\ st.busy > st.total[1])
                  => st.idle = Some(0)
    /\ Reading =>
        /\ ~panicked
        /\ (Read.stats.dropped_at = None /\ last.since < Read.stats.created_at)
              => last.total = 0
        /\ (/\ Read.stats.last_poll_started # None
            /\ Read.stats.last_poll_ended = None
            /\ last.since < Read.stats.last_poll_started[1])
              => last.busy = Read.stats.busy
        /\ (Read.stats.dropped_at = None /\ last.busy > last.total)
              => last.idle = 0

\* An active entity with a poll in progress was read at an instant before
\* its creation and before the start of the poll.
C17_Witness ==
    /\ Reading
    /\ Read.stats.dropped_at = None
    /\ last.since < Read.stats.created_at
    /\ Read.stats.last_poll_started # None
    /\ Read.stats.last_poll_ended = None
    /\ last.since < Read.stats.last_poll_started[1]
    /\ Read.stats.busy > 0
    /\ last.total = 0
    /\ last.idle = 0

----------------------------------------------------------------------------
\* Fatal conditions.

\* C18: applying an update batch never ends in a panic: a record with
\* missing fields, such as a stats record without a creation timestamp or
\* without poll stats, is skipped, and the batch is applied.
C18_NoFatalState == ~panicked /\ last.op # "panic"

----------------------------------------------------------------------------
\* The warning counts.

\* The tasks in the task store whose latest Ok or Warn from the rule was
\* Warn.
Warned(rule) == {t \in task_store : verdict[t][rule] = "Warn"}

\* C19: for every rule, count() is the number of entities whose latest
\* decisive evaluation of the rule was Warn and that were not evicted since;
\* it is the strong count of the rule's Rc minus one, zero before any
\* evaluation.
C19_CountIsWarned ==
    \A r \in SeqToSet(Rules) :
        /\ LinterCount(r) = Cardinality(Warned(r))
        /\ LinterCount(r) = linters[r] - 1
        /\ LinterCount(r) =
              Cardinality({t \in DOMAIN warnings : r \in warnings[t]})
        /\ last.op = "init" => LinterCount(r) = 0

\* C20: a rule that evaluates to Recheck for an entity leaves the entity
\* warned by the rule if it was and unwarned if it was not, and leaves the
\* rule's count as it was; the entity's status is the one its latest Ok or
\* Warn gave it.
C20_RecheckKeeps ==
    /\ last.op = "lint" =>
        \A r \in SeqToSet(Rules) :
            last.results[r] = "Recheck" =>
                /\ r \in warnings[last.task]
                      <=> r \in last.before.warnings[last.task]
                /\ LinterCount(r) = last.before.linters[r] - 1
    /\ \A t \in DOMAIN warnings :
        \A r \in SeqToSet(Rules) :
            r \in warnings[t] <=> verdict[t][r] = "Warn"

\* A rule evaluated to Recheck for a task it had warned.
C20_Witness ==
    /\ last.op = "lint"
    /\ \E r \in SeqToSet(Rules) :
        /\ last.results[r] = "Recheck"
        /\ r \in last.before.warnings[last.task]
        /\ r \in warnings[last.task]
        /\ LinterCount(r) > 0

----------------------------------------------------------------------------
\* Eviction and the detail view.

\* C21: when retain evicts an entity that holds a handle of a rule, the
\* count of the rule is lower by exactly one once the eviction is over,
\* whichever views reference the entity, an open detail view included.
C21_EvictionLowersCount ==
    last.op = "evict" =>
        \A r \in last.before.warnings[last.task] :
            LinterCount(r) = (last.before.linters[r] - 1) - 1

\* C22: every format call on a handle the entity holds, those of the detail
\* view when it renders the warnings of the entity included, is made while
\* the rule's check on the current data of the entity evaluates to Warn: the
\* assertion in Linter::format does not fail.
C22_FormatOnlyWhenWarn ==
    last.op = "render" =>
        /\ \A r \in last.formatted :
              WarnCheck(r, task_data[last.task]) = "Warn"
        /\ ~panicked

----------------------------------------------------------------------------
\* The sort of the async ops view.

\* The view has just sorted its list.
Sorted == last.op = "sort"

\* The weak reference resolves no more.
Dead(ao) == Upgrade(ao) = None

\* The place of a reference in a list it occurs in once.
PlaceIn(seq, ao) == CHOOSE i \in 1..Len(seq) : seq[i] = ao

\* C23 as stated: under every sort key the entries whose entity has been
\* evicted come after all entries whose entity is live.
C23_Original ==
    Sorted =>
        \A i, j \in 1..Len(last.sorted) :
            (Dead(last.sorted[i]) /\ ~Dead(last.sorted[j])) => i > j

\* C23: under every one of the seven sort keys the entries whose entity has
\* been evicted (the weak reference resolves no more) have the minimal key:
\* they come before all entries whose entity is live.
C23_DeadFirst ==
    Sorted =>
        /\ last.by \in SortKeys
        /\ \A i, j \in 1..Len(last.sorted) :
            (Dead(last.sorted[i]) /\ ~Dead(last.sorted[j])) => i < j
        /\ \A ao \in SeqToSet(last.ops) :
            Dead(ao) => \A other \in SeqToSet(last.ops) :
                            last.key[ao] <= last.key[other]

\* A list with the reference to an evicted entity behind a live one was
\* sorted.
C23_Witness ==
    /\ Sorted
    /\ evicted # {}
    /\ \E m, n \in 1..Len(last.ops) :
        /\ m < n
        /\ ~Dead(last.ops[m])
        /\ Dead(last.ops[n])

\* C24: SortBy::sort is a stable sort: its output is a permutation of the
\* input in non-decreasing order of the keys at the one instant now, and
\* entries with equal keys keep the order they had in the input.
C24_StableSort ==
    Sorted =>
        /\ Len(last.sorted) = Len(last.ops)
        /\ SeqToSet(last.sorted) = SeqToSet(last.ops)
        /\ \A i, j \in 1..Len(last.sorted) :
            i < j =>
                /\ last.key[last.sorted[i]] <= last.key[last.sorted[j]]
                /\ last.key[last.sorted[i]] = last.key[last.sorted[j]]
                      => PlaceIn(last.ops, last.sorted[i])
                         < PlaceIn(last.ops, last.sorted[j])

----------------------------------------------------------------------------
\* C25: dropped_events() is the sum of the dropped-record counts of the
\* batches applied so far: it is 0 to begin with, every applied batch adds its
\* own count to it, whether or not its records were stored, and no other
\* operation changes it; so it never decreases.
C25_DroppedEventsSum ==
    /\ dropped_events = 0
    /\ [][/\ dropped_events' >= dropped_events
          /\ IF last'.op = "update"
             THEN dropped_events' =
                    dropped_events + last'.update.dropped_events
             ELSE dropped_events' = dropped_events]_vars

\* A second batch with a dropped count was applied, none of its records was
\* stored, and the counter holds the counts of both batches.
C25_Witness ==
    /\ BatchApplied
    /\ last.update.dropped_events = 1
    /\ last.update.new # <<>>
    /\ \A i \in 1..Len(last.log) : last.log[i] = None
    /\ dropped_events = 2

----------------------------------------------------------------------------
\* C26: a new-entity record that is skipped as malformed has no effect.  On a
\* batch whose records all lack one of their requirements this says: the
\* async-op and resource remappers, the entities in the store and the new
\* items are as before the batch, and the stats loop goes over every delta the
\* batch came with.
C26_SkippedNoEffect ==
    (/\ BatchApplied
     /\ \A i \in 1..Len(last.update.new) :
            ~HasRequired(last.update.new[i], last.update.metas))
    => /\ ids["async_op"] = last.before.ids["async_op"]
       /\ ids["resource"] = last.before.ids["resource"]
       /\ DOMAIN store = DOMAIN last.before.store
       /\ \A L \in DOMAIN store : store[L].obj = last.before.store[L].obj
       /\ new_items = last.before.new_items
       /\ last.deltas = DOMAIN last.update.stats_update

----------------------------------------------------------------------------
\* The allocations the entities of store st hold a handle to.
HandlesOf(st) ==
    {EntityHandles(st[L])[i] : L \in DOMAIN st, i \in 1..3}

\* C28: after a retention sweep and the interner sweep that follows it, a
\* string that only evicted entities referenced is gone from the interner;
\* every string a surviving entity references is registered, under the
\* allocation the entity holds; and after any interner sweep no registered
\* string is without a reference.
C28_EvictThenSweep ==
    last.op = "sweep" =>
        /\ \A a \in strings : ExternalHolders(a) > 0
        /\ HandlesOf(store) \subseteq strings
        /\ last.swept_store # None =>
            \A a \in HandlesOf(Unwrap(last.swept_store)) :
                a \in strings <=> a \in HandlesOf(store)

\* The retention sweep evicted an entity and kept another; the interner
\* sweep after it removed a string the evicted entity held and kept one the
\* surviving entity holds.
C28_Witness ==
    /\ last.op = "sweep"
    /\ last.swept_store # None
    /\ DOMAIN store # {}
    /\ DOMAIN Unwrap(last.swept_store) \ DOMAIN store # {}
    /\ HandlesOf(Unwrap(last.swept_store)) \ strings # {}
    /\ HandlesOf(store) # {}

----------------------------------------------------------------------------
\* The never-yielded rule over time.

Checked(rule) == last.op = "check" /\ last.rule = rule

\* A non-blocking task in the Running state on its first poll.
FirstPoll(task) ==
    ~task.is_blocking /\ task.state = "Running" /\ task.total_polls <= 1

\* What C27 says the never-yielded rule evaluates to.
C27_Verdict ==
    Checked("NeverYielded") =>
        last.result =
            IF ~FirstPoll(last.task) THEN "Ok"
            ELSE IF last.busy < DEFAULT_DURATION THEN "Recheck"
            ELSE "Warn"

\* The rule does not fall back from Warn while the task stays as it is.
C27_NoFallBack ==
    (/\ Checked("NeverYielded")
     /\ FirstPoll(last.task)
     /\ last.prev = Some("Warn"))
    => last.result = "Warn"

\* C27: the never-yielded rule evaluates to Ok for a task that is blocking,
\* not Running or past its first poll; for any other task to Recheck when
\* busy(now) is below the minimum duration and to Warn when it has reached it;
\* as time advances a task that stays Running on its first poll is eventually
\* evaluated to Warn, and an evaluation after a Warn is a Warn again.
C27_NeverYielded ==
    /\ []C27_Verdict
    /\ []C27_NoFallBack
    /\ (polled_task # None /\ FirstPoll(Unwrap(polled_task)))
        ~> \/ polled_task # None /\ ~FirstPoll(Unwrap(polled_task))
           \/ Checked("NeverYielded") /\ last.result = "Warn"

\* An evaluation of a task on its first poll to Warn, after one to Recheck.
C27_Witness ==
    /\ Checked("NeverYielded")
    /\ FirstPoll(last.task)
    /\ last.prev = Some("Recheck")
    /\ last.result = "Warn"
    /\ last.busy = DEFAULT_DURATION

----------------------------------------------------------------------------
\* The self-wake and large-future rules.

Contains(pieces, piece) == \E i \in 1..Len(pieces) : pieces[i] = piece

\* C29: the self-wake rule with threshold p evaluates to Warn for a
\* non-blocking task whose self-wake percent is greater than p and to Ok for
\* every other task, and the sentence it formats for a task it warns about
\* has p and the self-wake percent of the task in it.
C29_SelfWakeAboveThreshold ==
    Checked("SelfWakePercent") =>
        /\ last.result =
            IF ~last.task.is_blocking
               /\ last.task.self_wake_percent > last.config
            THEN "Warn" ELSE "Ok"
        /\ last.result = "Warn" =>
            /\ last.formatted # None
            /\ Contains(Unwrap(last.formatted), DisplayU64(last.config))
            /\ Contains(Unwrap(last.formatted),
                        DisplayU64(last.task.self_wake_percent))
            /\ Unwrap(last.formatted)[2] = DisplayU64(last.config)
            /\ Unwrap(last.formatted)[4]
                 = DisplayU64(last.task.self_wake_percent)

\* The rule with threshold 50 warned about a task at 86 percent, and the
\* sentence has "50" and "86" in it.
C29_Witness ==
    /\ Checked("SelfWakePercent")
    /\ last.config = DEFAULT_PERCENT
    /\ last.task.self_wake_percent = 86
    /\ last.result = "Warn"
    /\ Contains(Unwrap(last.formatted), "86")
    /\ Contains(Unwrap(last.formatted), "50")

\* C30 as stated: the large-future rule evaluates to Warn when the task is
\* non-blocking and its size is known and above the threshold, and to Ok for
\* every other task.
C30_Original ==
    Checked("LargeFuture") =>
        last.result =
            IF /\ ~last.task.is_blocking
               /\ last.task.size_bytes # None
               /\ Unwrap(last.task.size_bytes) > last.config
            THEN "Warn" ELSE "Ok"

\* C30, amended: the large-future rule evaluates to Warn when the task is
\* non-blocking and its size is known and at or above the threshold, and to
\* Ok for every other task.
C30_AtOrAboveThreshold ==
    Checked("LargeFuture") =>
        last.result =
            IF /\ ~last.task.is_blocking
               /\ last.task.size_bytes # None
               /\ Unwrap(last.task.size_bytes) >= last.config
            THEN "Warn" ELSE "Ok"

\* The rule warned about a task whose size is the threshold.
C30_Witness ==
    /\ Checked("LargeFuture")
    /\ ~last.task.is_blocking
    /\ last.task.size_bytes = Some(last.config)
    /\ last.result = "Warn"

----------------------------------------------------------------------------
\* The controls widget.

RECURSIVE Flatten(_)
Flatten(lines) ==
    IF lines = <<>> THEN <<>> ELSE Head(lines) \o Flatten(Tail(lines))

\* The spans of the controls from i on, a separator before each but the first.
RECURSIVE Joined(_, _)
Joined(controls, i) ==
    IF i > Len(controls) THEN <<>>
    ELSE (IF i > 1 THEN <<separator>> ELSE <<>>)
         \o controls[i] \o Joined(controls, i + 1)

\* The controls a line holds: each has one " = " span.
ControlsIn(line) == Cardinality({i \in 1..Len(line) : line[i] = " = "})

\* The width of a line up to its trailing separator, if it has one.
WidthOfItems(line) ==
    IF line[Len(line)] = separator
    THEN LineWidth(line) - Len(separator) ELSE LineWidth(line)

\* C31: Controls::new lays out every control once and in order, the view
\* controls before the universal ones; a line that holds more than one control
\* is, its trailing separator included, no wider than the area; and a line
\* wider than the area holds one control that is too wide for the area even
\* without a trailing separator.
C31_ControlsFit ==
    last.op = "controls" =>
        /\ Flatten(last.lines)
            = <<"controls: ">>
              \o Joined(LineControls(last.view_controls, last.styles), 1)
        /\ \A i \in 1..Len(last.lines) :
            /\ ControlsIn(last.lines[i]) > 1
                => LineWidth(last.lines[i]) <= last.area_width
            /\ LineWidth(last.lines[i]) > last.area_width
                => /\ ControlsIn(last.lines[i]) = 1
                   /\ WidthOfItems(last.lines[i]) > last.area_width

====
